---- MODULE Spec2Model ----
(***************************************************************************)
(* A model of banglejs-emu (src/src/main.rs): the host side of an Espruino *)
(* firmware image run under wasmer.  main wires six host imports, creates  *)
(* the instance, and then runs a fixed sequence of firmware calls:         *)
(*   jsInit; jsSendPinWatchEvent(BTN1); js_handle_io;                      *)
(*   js_push_string("console.log(17);LED1.set()\n");                       *)
(*   10 x (jsIdle; js_handle_io); draw_screen.                             *)
(*                                                                         *)
(* The firmware is the environment.  While one of its entry points runs it *)
(* may queue console output, call any host import with any i32 arguments,  *)
(* trap, or return.  Its output-polling entry points follow Espruino's     *)
(* transmit queue: jshGetDeviceToTransmit answers the device of the oldest *)
(* queued character (0 when the queue is empty), jshGetCharToTransmit(d)   *)
(* removes and answers the oldest character queued for d (-1 when none).   *)
(* The getters (the two polling entry points and jsGfxGetPtr) are taken to *)
(* call no host import.                                                    *)
(*                                                                         *)
(* Three specifications share the variables:                                *)
(*   Spec      main's whole sequence with the console side of the firmware *)
(*   SpecHw    the peripheral imports, called in any order while jsInit is *)
(*             in flight                                                   *)
(*   SpecGet3  the pixel decoder get3 applied to rows drawn from bounded   *)
(*             sets                                                        *)
(***************************************************************************)
EXTENDS Integers, Sequences, FiniteSets, TLC

(* ------------------------------------------------------------------ *)
(* Program constants                                                    *)
(* ------------------------------------------------------------------ *)

BTN1 == 17

NumPins == 48

FlashSize == 2^23

MemPages == 4

MemBytes == MemPages * 65536

ConsoleDevice == 21

RowBytes == 66

ScreenW == 176

ScreenH == 176

IdleSteps == 10

\* b"console.log(17);LED1.set()\n"
PushString ==
  << 99, 111, 110, 115, 111, 108, 101, 46, 108, 111, 103, 40, 49, 55, 41, 59,
     76, 69, 68, 49, 46, 115, 101, 116, 40, 41, 10 >>

(* ------------------------------------------------------------------ *)
(* Bounds of the environment                                            *)
(* ------------------------------------------------------------------ *)

\* The firmware's transmit queue holds at most MaxTx characters.
MaxTx == 2

\* Devices and character codes the firmware queues: the console device and
\* another one; an ASCII byte and a byte above 0x7F.
TxDevices == {ConsoleDevice, 22}

TxChars == {50, 233}

\* i32 arguments the firmware passes to the flash imports.
FlashIdxArgs == {-1, -FlashSize, 0, 1, FlashSize - 1, FlashSize, 2147483647}

FlashAddrArgs == {-1, 0, FlashSize - 1, FlashSize}

MemPtrArgs == {-1, 0, 1, MemBytes - 1, MemBytes}

LenArgs == {-1, 0, 1, 2, MemBytes + 1}

\* i32 arguments the firmware passes to the pin imports.
PinIdxArgs == {-1, 0, BTN1, NumPins - 1, NumPins}

PinValArgs == {-1, 0, 1, 2}

\* Addresses and bytes the firmware stores into its linear memory.
StoreAddrs == {0, 1, MemBytes - 1}

StoreBytes == {7, 200}

\* Row pointers jsGfxGetPtr answers.
GfxPtrs == {-1, 0, RowBytes, MemBytes - RowBytes, MemBytes - RowBytes + 1}

\* Bytes the decoder is tried on: for the byte that holds the pixel's first
\* bit, every single bit set and every single bit clear; a sample for the
\* following byte and for the rest.
Get3Bytes == {0, 255, 85, 170} \cup {2 ^ i : i \in 0 .. 7} \cup {255 - 2 ^ i : i \in 0 .. 7}

Get3NextBytes == {0, 1, 2, 3, 252, 255}

Get3Fill == {0, 255}

VARIABLES
  pc,            \* main's position, or how the process ended
  fw,            \* the firmware entry point main has in flight, or "none"
  instance_env,  \* Env.instance: "None" or "Some"
  instance_lock, \* holder of the Env.instance mutex
  store_lock,    \* holder of the store_arc mutex
  tx,            \* the firmware's transmit queue
  drain,         \* js_handle_io's position: "none", "poll" or "char"
  dctx,          \* who runs js_handle_io: "main" or "jsHandleIO"
  device,        \* the device the last jshGetDeviceToTransmit answered
  out,           \* bytes written to stdout by the drain cycle in progress or just ended
  printed,       \* queue entries that drain cycle has taken
  pending0,      \* the transmit queue when that drain cycle began
  polls,         \* jshGetDeviceToTransmit calls of that drain cycle
  ops,           \* operations main has issued, in order
  k,             \* bytes of PushString pushed so far
  step,          \* idle ticks issued so far
  last,          \* the last host import call and its outcome
  flash,         \* FlashStore: the bytes written, by index; the others hold 0xFF
  pins,          \* PinBank
  mem,           \* the sandbox's linear memory: the bytes stored; the others hold 0
  y,             \* draw_screen's row
  dstage,        \* draw_screen's position in an iteration
  base0, base1,  \* the row pointers of the iteration
  buf0, buf1,    \* the row buffers
  rows,          \* rows asked of jsGfxGetPtr, in order
  reads,         \* byte indices get3 has read
  line,          \* the colour codes of the row pair printed last
  px, c0         \* the decoder's input pixel and its result

mainVars == <<pc, fw, ops, k, step>>

lockVars == <<instance_env, instance_lock, store_lock>>

consVars == <<tx, drain, dctx, device, out, printed, pending0, polls>>

hwVars == <<flash, pins, mem>>

drawVars == <<y, dstage, base0, base1, buf0, buf1, rows, reads, line>>

get3Vars == <<px, c0>>

vars == <<mainVars, lockVars, consVars, last, hwVars, drawVars, get3Vars>>

(* ------------------------------------------------------------------ *)
(* Integer conversions                                                  *)
(* ------------------------------------------------------------------ *)

\* `ind as usize` (and `base as u64`) of an i32 on a 64-bit host: sign
\* extension to 64 bits, kept as four 16-bit limbs, most significant first.
AsUsize(i) ==
  LET sign == IF i < 0 THEN 65535 ELSE 0
  IN  << sign, sign, (i \div 65536) % 65536, i % 65536 >>

\* A usize below 2^31, the only ones that can index the vectors of the model.
UsizeSmall(u) == u[1] = 0 /\ u[2] = 0 /\ u[3] < 32768

UsizeVal(u) == u[3] * 65536 + u[4]

\* v[u] is in bounds for a vector of n elements.
IndexOk(u, n) == UsizeSmall(u) /\ UsizeVal(u) < n

\* &v[u..] is in bounds for a slice of n elements.
SliceFromOk(u, n) == UsizeSmall(u) /\ UsizeVal(u) <= n

\* MemoryView::read(offset, buf): offset + buf.len() must not pass the end.
MemReadOk(u, n) ==
  UsizeSmall(u) /\ UsizeVal(u) <= MemBytes /\ n <= MemBytes - UsizeVal(u)

FlashAt(f, i) == IF i \in DOMAIN f THEN f[i] ELSE 255

MemAt(m, a) == IF a \in DOMAIN m THEN m[a] ELSE 0

MemSlice(m, a, n) == [i \in 1 .. n |-> MemAt(m, a + i - 1)]

BoolAsI32(b) == IF b THEN 1 ELSE 0

\* char::from_u32(x as u32) is Some: x is a Unicode scalar value.
CharFromU32Ok(x) == x >= 0 /\ x <= 1114111 /\ ~(x >= 55296 /\ x <= 57343)

\* print!("{ch}"): the UTF-8 encoding of the character.
Utf8(c) ==
  IF c < 128 THEN << c >>
  ELSE IF c < 2048 THEN << 192 + (c \div 64), 128 + (c % 64) >>
  ELSE IF c < 65536
    THEN << 224 + (c \div 4096), 128 + ((c \div 64) % 64), 128 + (c % 64) >>
    ELSE << 240 + (c \div 262144), 128 + ((c \div 4096) % 64),
            128 + ((c \div 64) % 64), 128 + (c % 64) >>

Terminal == {"done", "err", "panic", "deadlock"}

NoCall == [fn |-> "none", args |-> << >>, outcome |-> "none", ret |-> 0, seq |-> 0]

HostCall(fn, args, outcome, ret) ==
  [fn |-> fn, args |-> args, outcome |-> outcome, ret |-> ret, seq |-> 1 - last.seq]

\* The entry points whose code may call host imports and queue output.
HostCallers == {"jsInit", "jsSendPinWatchEvent", "jshPushIOCharEvent", "jsIdle"}

(* ------------------------------------------------------------------ *)
(* The firmware's transmit queue                                        *)
(* ------------------------------------------------------------------ *)

jshGetDeviceToTransmit == IF tx = << >> THEN 0 ELSE Head(tx).dev

\* Position in tx of the oldest character queued for device d, 0 when none.
TxFirst(d) ==
  IF \E i \in 1 .. Len(tx) : tx[i].dev = d
    THEN CHOOSE i \in 1 .. Len(tx) :
           tx[i].dev = d /\ \A j \in 1 .. i - 1 : tx[j].dev # d
    ELSE 0

jshGetCharToTransmit(d) == IF TxFirst(d) = 0 THEN -1 ELSE tx[TxFirst(d)].ch

TxWithout(i) == [j \in 1 .. Len(tx) - 1 |-> IF j < i THEN tx[j] ELSE tx[j + 1]]

(* ------------------------------------------------------------------ *)
(* main: instance creation and the firmware calls it issues             *)
(* ------------------------------------------------------------------ *)

Init ==
  /\ pc = "new_instance"
  /\ fw = "none"
  /\ instance_env = "None"
  /\ instance_lock = "free"
  /\ store_lock = "main"
  /\ tx = << >>
  /\ drain = "none"
  /\ dctx = "main"
  /\ device = 0
  /\ out = << >>
  /\ printed = << >>
  /\ pending0 = << >>
  /\ polls = 0
  /\ ops = << >>
  /\ k = 0
  /\ step = 0
  /\ last = NoCall
  /\ flash = << >>
  /\ pins = [i \in 0 .. NumPins - 1 |-> i = BTN1]
  /\ mem = << >>
  /\ y = 0
  /\ dstage = "get"
  /\ base0 = 0
  /\ base1 = 0
  /\ buf0 = << >>
  /\ buf1 = << >>
  /\ rows = << >>
  /\ reads = {}
  /\ line = << >>
  /\ px = 0
  /\ c0 = 0

\* NewInstance without line 215: the handle is never stored.
NewInstanceNoHandle ==
  /\ pc = "new_instance"
  /\ instance_lock = "free"
  /\ pc' = "js_init"
  /\ UNCHANGED <<fw, ops, k, step, lockVars, consVars, last, hwVars, drawVars,
                 get3Vars>>

\* Instance::new, and the handle stored into the jsHandleIO environment.
NewInstance ==
  /\ pc = "new_instance"
  /\ instance_lock = "free"
  /\ instance_env' = "Some"
  /\ pc' = "js_init"
  /\ UNCHANGED <<fw, ops, k, step, instance_lock, store_lock, consVars, last,
                 hwVars, drawVars, get3Vars>>

\* main calls a firmware entry point.
CallExport(name, args) ==
  /\ fw = "none"
  /\ drain = "none"
  /\ fw' = name
  /\ ops' = Append(ops, [op |-> name, args |-> args])
  /\ out' = << >>
  /\ printed' = << >>
  /\ pending0' = << >>
  /\ polls' = 0
  /\ UNCHANGED <<pc, tx, drain, dctx, device, lockVars, last, hwVars, drawVars,
                 get3Vars>>

CallJsInit ==
  /\ pc = "js_init"
  /\ CallExport("jsInit", << >>)
  /\ UNCHANGED <<k, step>>

CallJsSendPinWatchEvent ==
  /\ pc = "pin_watch"
  /\ CallExport("jsSendPinWatchEvent", << BTN1 >>)
  /\ UNCHANGED <<k, step>>

\* PushCharArgs with the string walked from its end.
PushCharArgsReversed(n) == << ConsoleDevice, PushString[Len(PushString) + 1 - n] >>

\* The arguments of js_push_string's n-th call of jshPushIOCharEvent.
PushCharArgs(n) == << ConsoleDevice, PushString[n] >>

CallJsPushChar ==
  /\ pc = "push"
  /\ k < Len(PushString)
  /\ CallExport("jshPushIOCharEvent", PushCharArgs(k + 1))
  /\ k' = k + 1
  /\ UNCHANGED step

CallJsIdle ==
  /\ pc = "idle"
  /\ step < IdleSteps
  /\ CallExport("jsIdle", << >>)
  /\ step' = step + 1
  /\ UNCHANGED k

\* AfterReturn with the tick's drain cycle left out.
AfterReturnNoDrain ==
  CASE fw = "jsInit" -> "pin_watch"
    [] fw = "jsSendPinWatchEvent" -> "drain_init"
    [] fw = "jshPushIOCharEvent" -> IF k < Len(PushString) THEN "push" ELSE "idle"
    [] fw = "jsIdle" -> IF step < IdleSteps THEN "idle" ELSE "draw_screen"

\* Where main goes on when the entry point in flight returns.
AfterReturn ==
  CASE fw = "jsInit" -> "pin_watch"
    [] fw = "jsSendPinWatchEvent" -> "drain_init"
    [] fw = "jshPushIOCharEvent" -> IF k < Len(PushString) THEN "push" ELSE "idle"
    [] fw = "jsIdle" -> "drain_idle"

FwReturn ==
  /\ pc \notin Terminal
  /\ fw \in HostCallers
  /\ drain = "none"
  /\ fw' = "none"
  /\ pc' = AfterReturn
  /\ UNCHANGED <<ops, k, step, lockVars, consVars, last, hwVars, drawVars, get3Vars>>

\* The entry point in flight traps: call(..)? returns the error from main.
FwTrap ==
  /\ pc \notin Terminal
  /\ fw \in HostCallers
  /\ drain = "none"
  /\ pc' = "err"
  /\ UNCHANGED <<fw, ops, k, step, lockVars, consVars, last, hwVars, drawVars,
                 get3Vars>>

\* The entry point in flight queues one character of console output.
FwEmit(d, c) ==
  /\ pc \notin Terminal
  /\ fw \in HostCallers
  /\ drain = "none"
  /\ Len(tx) < MaxTx
  /\ tx' = Append(tx, [dev |-> d, ch |-> c, op |-> fw])
  /\ UNCHANGED <<mainVars, lockVars, drain, dctx, device, out, printed, pending0,
                 polls, last, hwVars, drawVars, get3Vars>>

(* ------------------------------------------------------------------ *)
(* js_handle_io: the console drain cycle                                *)
(* ------------------------------------------------------------------ *)

\* main enters js_handle_io (after the pin-watch event, and after each tick).
StartDrain ==
  /\ pc \in {"drain_init", "drain_idle"}
  /\ fw = "none"
  /\ drain = "none"
  /\ drain' = "poll"
  /\ dctx' = "main"
  /\ ops' = Append(ops, [op |-> "js_handle_io", args |-> << >>])
  /\ out' = << >>
  /\ printed' = << >>
  /\ pending0' = tx
  /\ polls' = 0
  /\ UNCHANGED <<pc, fw, k, step, lockVars, tx, device, last, hwVars, drawVars,
                 get3Vars>>

\* Where main goes on when its drain cycle ends.
AfterDrain ==
  IF pc = "drain_init" THEN "push"
  ELSE IF step < IdleSteps THEN "idle" ELSE "draw_screen"

\* One turn of the loop up to the test of the device: at the none-sentinel the
\* cycle prints a line feed and ends, and control goes back to its caller.
DrainGetDevice ==
  /\ pc \notin Terminal
  /\ drain = "poll"
  /\ polls' = polls + 1
  /\ device' = jshGetDeviceToTransmit
  /\ IF jshGetDeviceToTransmit = 0
       THEN /\ out' = out \o << 10 >>
            /\ drain' = "none"
            /\ IF dctx = "main"
                 THEN /\ pc' = AfterDrain
                      /\ UNCHANGED <<instance_lock, store_lock, last>>
                 ELSE /\ instance_lock' = "free"
                      /\ store_lock' = "free"
                      /\ last' = [last EXCEPT !.outcome = "ok"]
                      /\ UNCHANGED pc
       ELSE /\ drain' = "char"
            /\ UNCHANGED <<pc, out, instance_lock, store_lock, last>>
  /\ UNCHANGED <<fw, ops, k, step, instance_env, tx, dctx, printed, pending0,
                 hwVars, drawVars, get3Vars>>

\* The rest of the turn: the character of the device answered is fetched,
\* converted and printed.
DrainGetChar ==
  /\ pc \notin Terminal
  /\ drain = "char"
  /\ IF CharFromU32Ok(jshGetCharToTransmit(device))
       THEN /\ out' = out \o Utf8(jshGetCharToTransmit(device))
            /\ printed' = Append(printed, tx[TxFirst(device)])
            /\ tx' = TxWithout(TxFirst(device))
            /\ drain' = "poll"
            /\ UNCHANGED pc
       ELSE /\ pc' = "panic"
            /\ UNCHANGED <<out, printed, tx, drain>>
  /\ UNCHANGED <<fw, ops, k, step, lockVars, dctx, device, pending0, polls, last,
                 hwVars, drawVars, get3Vars>>

\* A polling entry point traps: js_handle_io returns the error, which main
\* returns and jsHandleIO unwraps.
DrainTrap ==
  /\ pc \notin Terminal
  /\ drain # "none"
  /\ pc' = IF dctx = "main" THEN "err" ELSE "panic"
  /\ UNCHANGED <<fw, ops, k, step, lockVars, consVars, last, hwVars, drawVars,
                 get3Vars>>

(* ------------------------------------------------------------------ *)
(* The host import jsHandleIO                                           *)
(* ------------------------------------------------------------------ *)

\* What lock() does on a std::sync::Mutex its own thread already holds: it
\* never returns; the thread blocks for ever, or panics.
RelockOutcomes == {"deadlock", "panic"}

\* How far the closure gets: it locks Env.instance, unwraps the handle, locks
\* the store, and only then runs js_handle_io.
HandleIOEntry(o) ==
  IF instance_lock # "free" THEN o
  ELSE IF instance_env = "None" THEN "panic"
  ELSE IF store_lock # "free" THEN o
  ELSE "run"

JsHandleIO ==
  /\ pc \notin Terminal
  /\ fw \in HostCallers
  /\ drain = "none"
  /\ \E o \in RelockOutcomes :
       /\ last' = HostCall("jsHandleIO", << >>,
                           IF HandleIOEntry(o) = "run" THEN "running"
                           ELSE HandleIOEntry(o), 0)
       /\ IF HandleIOEntry(o) = "run"
            THEN /\ instance_lock' = "jsHandleIO"
                 /\ store_lock' = "jsHandleIO"
                 /\ drain' = "poll"
                 /\ dctx' = "jsHandleIO"
                 /\ out' = << >>
                 /\ printed' = << >>
                 /\ pending0' = tx
                 /\ polls' = 0
                 /\ UNCHANGED pc
            ELSE /\ pc' = HandleIOEntry(o)
                 /\ instance_lock' =
                      IF instance_lock = "free" /\ HandleIOEntry(o) = "deadlock"
                        THEN "jsHandleIO" ELSE instance_lock
                 /\ UNCHANGED <<store_lock, drain, dctx, out, printed, pending0,
                                polls>>
  /\ UNCHANGED <<fw, ops, k, step, instance_env, tx, device, hwVars, drawVars,
                 get3Vars>>

(* ------------------------------------------------------------------ *)
(* The peripheral host imports                                          *)
(* ------------------------------------------------------------------ *)

\* flash[ind as usize] as i32
HwFlashRead(ind) ==
  /\ pc \notin Terminal
  /\ fw \in HostCallers
  /\ drain = "none"
  /\ IF IndexOk(AsUsize(ind), FlashSize)
       THEN /\ last' = HostCall("hwFlashRead", << ind >>, "ok",
                                FlashAt(flash, UsizeVal(AsUsize(ind))))
            /\ UNCHANGED pc
       ELSE /\ last' = HostCall("hwFlashRead", << ind >>, "panic", 0)
            /\ pc' = "panic"
  /\ UNCHANGED <<fw, ops, k, step, lockVars, consVars, hwVars, drawVars, get3Vars>>

\* How far the closure gets: it slices flash[flash_addr..][..len], locks the
\* store for the memory view, and reads the sandbox's memory into the slice.
FlashWriteEntry(flash_addr, base, len, o) ==
  IF ~SliceFromOk(AsUsize(flash_addr), FlashSize) THEN "panic"
  ELSE IF ~(UsizeSmall(AsUsize(len))
            /\ UsizeVal(AsUsize(len)) <= FlashSize - UsizeVal(AsUsize(flash_addr)))
    THEN "panic"
  ELSE IF store_lock # "free" THEN o
  ELSE IF ~MemReadOk(AsUsize(base), UsizeVal(AsUsize(len))) THEN "panic"
  ELSE "ok"

\* flash with len bytes of the sandbox's memory at base copied to flash_addr.
FlashAfterWrite(flash_addr, base, len) ==
  [i \in DOMAIN flash \cup (flash_addr .. flash_addr + len - 1) |->
     IF i \in flash_addr .. flash_addr + len - 1
       THEN MemAt(mem, base + (i - flash_addr))
       ELSE flash[i]]

HwFlashWritePtr(flash_addr, base, len) ==
  /\ pc \notin Terminal
  /\ fw \in HostCallers
  /\ drain = "none"
  /\ \E o \in RelockOutcomes :
       /\ last' = HostCall("hwFlashWritePtr", << flash_addr, base, len >>,
                           FlashWriteEntry(flash_addr, base, len, o), 0)
       /\ IF FlashWriteEntry(flash_addr, base, len, o) = "ok"
            THEN /\ flash' = FlashAfterWrite(flash_addr, base, len)
                 /\ UNCHANGED pc
            ELSE /\ pc' = FlashWriteEntry(flash_addr, base, len, o)
                 /\ UNCHANGED flash
  /\ UNCHANGED <<fw, ops, k, step, lockVars, consVars, pins, mem, drawVars, get3Vars>>

\* pins[ind as usize] as i32
HwGetPinValue(ind) ==
  /\ pc \notin Terminal
  /\ fw \in HostCallers
  /\ drain = "none"
  /\ IF IndexOk(AsUsize(ind), NumPins)
       THEN /\ last' = HostCall("hwGetPinValue", << ind >>, "ok",
                                BoolAsI32(pins[UsizeVal(AsUsize(ind))]))
            /\ UNCHANGED pc
       ELSE /\ last' = HostCall("hwGetPinValue", << ind >>, "panic", 0)
            /\ pc' = "panic"
  /\ UNCHANGED <<fw, ops, k, step, lockVars, consVars, hwVars, drawVars, get3Vars>>

\* HwSetPinValue storing val == 1 in place of val != 0.
HwSetPinValueOne(ind, val) ==
  /\ pc \notin Terminal
  /\ fw \in HostCallers
  /\ drain = "none"
  /\ IF IndexOk(AsUsize(ind), NumPins)
       THEN /\ pins' = [pins EXCEPT ![UsizeVal(AsUsize(ind))] = (val = 1)]
            /\ last' = HostCall("hwSetPinValue", << ind, val >>, "ok", 0)
            /\ UNCHANGED pc
       ELSE /\ last' = HostCall("hwSetPinValue", << ind, val >>, "panic", 0)
            /\ pc' = "panic"
            /\ UNCHANGED pins
  /\ UNCHANGED <<fw, ops, k, step, lockVars, consVars, flash, mem, drawVars, get3Vars>>

\* pins[*ind as usize] = *val != 0
HwSetPinValue(ind, val) ==
  /\ pc \notin Terminal
  /\ fw \in HostCallers
  /\ drain = "none"
  /\ IF IndexOk(AsUsize(ind), NumPins)
       THEN /\ pins' = [pins EXCEPT ![UsizeVal(AsUsize(ind))] = (val # 0)]
            /\ last' = HostCall("hwSetPinValue", << ind, val >>, "ok", 0)
            /\ UNCHANGED pc
       ELSE /\ last' = HostCall("hwSetPinValue", << ind, val >>, "panic", 0)
            /\ pc' = "panic"
            /\ UNCHANGED pins
  /\ UNCHANGED <<fw, ops, k, step, lockVars, consVars, flash, mem, drawVars, get3Vars>>

\* The firmware stores a byte into its linear memory.
FwStore(a, b) ==
  /\ pc \notin Terminal
  /\ fw \in HostCallers
  /\ drain = "none"
  /\ mem' = [i \in DOMAIN mem \cup {a} |-> IF i = a THEN b ELSE mem[i]]
  /\ UNCHANGED <<mainVars, lockVars, consVars, last, flash, pins, drawVars, get3Vars>>

(* ------------------------------------------------------------------ *)
(* draw_screen and the pixel decoder get3                               *)
(* ------------------------------------------------------------------ *)

RECURSIVE BitOr(_, _)
\* a | b on unsigned integers.
BitOr(a, b) ==
  IF a = 0 THEN b
  ELSE IF b = 0 THEN a
  ELSE (IF a % 2 = 1 \/ b % 2 = 1 THEN 1 ELSE 0) + 2 * BitOr(a \div 2, b \div 2)

\* Get3Carry with < 5 in place of <= 5.
Get3CarryFrom5(bit) == ~((bit % 8) < 5)

\* get3's test for taking bits of the following byte, on bit = x * 3.
Get3Carry(bit) == ~((bit % 8) <= 5)

\* The indices of buf that get3(x, buf) reads.
Get3Reads(x) ==
  LET bit == x * 3
      byte == bit \div 8
  IN  {byte} \cup (IF Get3Carry(bit) THEN {byte + 1} ELSE {})

\* get3 with the bits of the following byte shifted by 7 - (bit & 7).
get3ShortShift(x, buf) ==
  LET bit == x * 3
      byte == bit \div 8
      sh == bit % 8
      lo == buf[byte + 1] \div (2 ^ sh)
      hi == IF Get3Carry(bit) THEN (buf[byte + 2] * (2 ^ (7 - sh))) % 256 ELSE 0
  IN  BitOr(lo, hi) % 8

\* get3(x, buf) on u8: buf is a sequence, buf[i + 1] the byte of index i.
get3(x, buf) ==
  LET bit == x * 3
      byte == bit \div 8
      sh == bit % 8
      lo == buf[byte + 1] \div (2 ^ sh)
      hi == IF Get3Carry(bit) THEN (buf[byte + 2] * (2 ^ (8 - sh))) % 256 ELSE 0
  IN  BitOr(lo, hi) % 8

\* for y in (0..176).step_by(2)
DrawNextRow(r) == r + 2

DrawScreenEnter ==
  /\ pc = "draw_screen"
  /\ pc' = "draw"
  /\ ops' = Append(ops, [op |-> "draw_screen", args |-> << >>])
  /\ buf0' = [i \in 1 .. RowBytes |-> 0]
  /\ buf1' = [i \in 1 .. RowBytes |-> 0]
  /\ y' = 0
  /\ dstage' = "get0"
  /\ out' = << >>
  /\ printed' = << >>
  /\ pending0' = << >>
  /\ polls' = 0
  /\ UNCHANGED <<fw, k, step, lockVars, tx, drain, dctx, device, last, hwVars,
                 base0, base1, rows, reads, line, get3Vars>>

DrawGetPtr0 ==
  /\ pc = "draw"
  /\ dstage = "get0"
  /\ y < ScreenH
  /\ \E b \in GfxPtrs : base0' = b
  /\ rows' = Append(rows, y)
  /\ dstage' = "get1"
  /\ UNCHANGED <<mainVars, lockVars, consVars, last, hwVars, y, base1, buf0, buf1,
                 reads, line, get3Vars>>

DrawGetPtr1 ==
  /\ pc = "draw"
  /\ dstage = "get1"
  /\ \E b \in GfxPtrs : base1' = b
  /\ rows' = Append(rows, y + 1)
  /\ dstage' = "read"
  /\ UNCHANGED <<mainVars, lockVars, consVars, last, hwVars, y, base0, buf0, buf1,
                 reads, line, get3Vars>>

\* jsGfxGetPtr traps.
DrawGetTrap ==
  /\ pc = "draw"
  /\ \/ dstage = "get0" /\ y < ScreenH /\ rows' = Append(rows, y)
     \/ dstage = "get1" /\ rows' = Append(rows, y + 1)
  /\ pc' = "err"
  /\ UNCHANGED <<fw, ops, k, step, lockVars, consVars, last, hwVars, y, dstage,
                 base0, base1, buf0, buf1, reads, line, get3Vars>>

DrawReadRows ==
  /\ pc = "draw"
  /\ dstage = "read"
  /\ IF ~MemReadOk(AsUsize(base0), RowBytes)
       THEN /\ pc' = "err"
            /\ UNCHANGED <<buf0, buf1, dstage>>
       ELSE /\ buf0' = MemSlice(mem, UsizeVal(AsUsize(base0)), RowBytes)
            /\ IF ~MemReadOk(AsUsize(base1), RowBytes)
                 THEN /\ pc' = "err"
                      /\ UNCHANGED <<buf1, dstage>>
                 ELSE /\ buf1' = MemSlice(mem, UsizeVal(AsUsize(base1)), RowBytes)
                      /\ dstage' = "decode"
                      /\ UNCHANGED pc
  /\ UNCHANGED <<fw, ops, k, step, lockVars, consVars, last, hwVars, y, base0,
                 base1, rows, reads, line, get3Vars>>

\* The pixels get3 cannot decode: an index it reads is past the buffer.
Get3OutOfRange == {x \in 0 .. ScreenW - 1 : \E i \in Get3Reads(x) : i >= RowBytes}

\* for x in 0..176: both rows' pixel x decoded and printed; an index past a
\* buffer's end panics.  The iteration's row pointers go out of scope.
DrawDecodeRows ==
  /\ pc = "draw"
  /\ dstage = "decode"
  /\ IF Get3OutOfRange = {}
       THEN /\ line' = [x \in 1 .. ScreenW |->
                          << 40 + get3(x - 1, buf0), 30 + get3(x - 1, buf1) >>]
            /\ reads' = reads \cup UNION {Get3Reads(x) : x \in 0 .. ScreenW - 1}
            /\ y' = DrawNextRow(y)
            /\ dstage' = "get0"
            /\ base0' = 0
            /\ base1' = 0
            /\ UNCHANGED pc
       ELSE /\ pc' = "panic"
            /\ reads' = reads \cup UNION {Get3Reads(x) :
                            x \in {z \in 0 .. ScreenW - 1 :
                                     \A b \in Get3OutOfRange : z <= b}}
            /\ UNCHANGED <<line, y, dstage, base0, base1>>
  /\ UNCHANGED <<fw, ops, k, step, lockVars, consVars, last, hwVars, buf0, buf1,
                 rows, get3Vars>>

DrawDone ==
  /\ pc = "draw"
  /\ dstage = "get0"
  /\ y >= ScreenH
  /\ pc' = "done"
  /\ UNCHANGED <<fw, ops, k, step, lockVars, consVars, last, hwVars, drawVars,
                 get3Vars>>

(* ------------------------------------------------------------------ *)
(* The whole run                                                        *)
(* ------------------------------------------------------------------ *)

Next ==
  \/ NewInstance
  \/ CallJsInit
  \/ CallJsSendPinWatchEvent
  \/ CallJsPushChar
  \/ CallJsIdle
  \/ FwReturn
  \/ FwTrap
  \/ \E d \in TxDevices, c \in TxChars : FwEmit(d, c)
  \/ JsHandleIO
  \/ StartDrain
  \/ DrainGetDevice
  \/ DrainGetChar
  \/ DrainTrap
  \/ DrawScreenEnter
  \/ DrawGetPtr0
  \/ DrawGetPtr1
  \/ DrawGetTrap
  \/ DrawReadRows
  \/ DrawDecodeRows
  \/ DrawDone

Spec == Init /\ [][Next]_vars

(* ------------------------------------------------------------------ *)
(* The peripheral imports while jsInit is in flight                     *)
(* ------------------------------------------------------------------ *)

\* The state of Spec after NewInstance and CallJsInit.
InitHw ==
  /\ pc = "js_init"
  /\ fw = "jsInit"
  /\ instance_env = "Some"
  /\ instance_lock = "free"
  /\ store_lock = "main"
  /\ tx = << >>
  /\ drain = "none"
  /\ dctx = "main"
  /\ device = 0
  /\ out = << >>
  /\ printed = << >>
  /\ pending0 = << >>
  /\ polls = 0
  /\ ops = << [op |-> "jsInit", args |-> << >>] >>
  /\ k = 0
  /\ step = 0
  /\ last = NoCall
  /\ flash = << >>
  /\ pins = [i \in 0 .. NumPins - 1 |-> i = BTN1]
  /\ mem = << >>
  /\ y = 0
  /\ dstage = "get"
  /\ base0 = 0
  /\ base1 = 0
  /\ buf0 = << >>
  /\ buf1 = << >>
  /\ rows = << >>
  /\ reads = {}
  /\ line = << >>
  /\ px = 0
  /\ c0 = 0

NextHw ==
  \/ \E ind \in FlashIdxArgs : HwFlashRead(ind)
  \/ \E a \in FlashAddrArgs, b \in MemPtrArgs, n \in LenArgs : HwFlashWritePtr(a, b, n)
  \/ \E ind \in PinIdxArgs : HwGetPinValue(ind)
  \/ \E ind \in PinIdxArgs, val \in PinValArgs : HwSetPinValue(ind, val)
  \/ \E a \in StoreAddrs, b \in StoreBytes : FwStore(a, b)

SpecHw == InitHw /\ [][NextHw]_vars

(* ------------------------------------------------------------------ *)
(* The decoder on its own                                               *)
(* ------------------------------------------------------------------ *)

\* A row whose byte holding pixel x's first bit is v0, the next one v1, and
\* every other one fill.
Get3Row(x, v0, v1, fill) ==
  [i \in 1 .. RowBytes |->
     IF i = ((x * 3) \div 8) + 1 THEN v0
     ELSE IF i = ((x * 3) \div 8) + 2 THEN v1
     ELSE fill]

\* draw_screen about to decode pixel px of the row in buf0.
InitGet3 ==
  /\ px \in 0 .. ScreenW - 1
  /\ \E v0 \in Get3Bytes, v1 \in Get3NextBytes, fill \in Get3Fill :
       buf0 = Get3Row(px, v0, v1, fill)
  /\ c0 = -1
  /\ pc = "draw"
  /\ fw = "none"
  /\ instance_env = "Some"
  /\ instance_lock = "free"
  /\ store_lock = "main"
  /\ tx = << >>
  /\ drain = "none"
  /\ dctx = "main"
  /\ device = 0
  /\ out = << >>
  /\ printed = << >>
  /\ pending0 = << >>
  /\ polls = 0
  /\ ops = << >>
  /\ k = Len(PushString)
  /\ step = IdleSteps
  /\ last = NoCall
  /\ flash = << >>
  /\ pins = [i \in 0 .. NumPins - 1 |-> i = BTN1]
  /\ mem = << >>
  /\ y = 0
  /\ dstage = "decode"
  /\ base0 = 0
  /\ base1 = 0
  /\ buf1 = [i \in 1 .. RowBytes |-> 0]
  /\ rows = << 0, 1 >>
  /\ reads = {}
  /\ line = << >>

Get3Apply ==
  /\ pc = "draw"
  /\ dstage = "decode"
  /\ c0 = -1
  /\ c0' = get3(px, buf0)
  /\ reads' = Get3Reads(px)
  /\ UNCHANGED <<mainVars, lockVars, consVars, last, hwVars, y, dstage, base0,
                 base1, buf0, buf1, rows, line, px>>

NextGet3 == Get3Apply

SpecGet3 == InitGet3 /\ [][NextGet3]_vars

(* ------------------------------------------------------------------ *)
(* Properties                                                           *)
(* ------------------------------------------------------------------ *)

OpAt(i) == ops[i].op

IsPushCall(e) == e.op = "jshPushIOCharEvent"

PushCalls == SelectSeq(ops, IsPushCall)

\* The operations that may produce firmware output.
OutputOps == {"jsInit", "jsSendPinWatchEvent", "jshPushIOCharEvent", "jsIdle"}

\* The order in which main issues them.
OpRank(name) ==
  CASE name = "jsInit" -> 1
    [] name = "jsSendPinWatchEvent" -> 2
    [] name = "jshPushIOCharEvent" -> 3
    [] name = "jsIdle" -> 4

\* main's last operation was a drain cycle, and it has ended.
DrainEnded ==
  /\ pc \notin Terminal
  /\ drain = "none"
  /\ fw = "none"
  /\ ops # << >>
  /\ OpAt(Len(ops)) = "js_handle_io"

(* C1: whenever the firmware calls jsHandleIO from inside a firmware call   *)
(* issued by main, the call gets to run the drain and complete: it never   *)
(* ends blocked (or panicking) on a lock that is already held.             *)
C1_HandleIOCompletes ==
  last.fn = "jsHandleIO" => last.outcome \in {"running", "ok"}

(* C2, as stated: every output-producing operation (init, pin event, the   *)
(* string injection as a whole, idle tick) is immediately followed by a    *)
(* drain cycle, with no other firmware operation in between.               *)
C2_DrainAfterEveryOp ==
  \A i \in 1 .. Len(ops) - 1 :
    OpAt(i) \in OutputOps =>
      \/ OpAt(i + 1) = "js_handle_io"
      \/ OpAt(i) = "jshPushIOCharEvent" /\ OpAt(i + 1) = "jshPushIOCharEvent"

(* C2, amended: every idle tick is immediately followed by a drain cycle;  *)
(* init is followed by the pin event and then a drain cycle; the string    *)
(* injection is followed by the first idle tick and then that tick's drain *)
(* cycle; nothing is queued when the framebuffer is read; and characters   *)
(* leave the queue in the order their operations were issued.              *)
C2_DrainSchedule ==
  /\ \A i \in 1 .. Len(ops) - 1 :
       /\ OpAt(i) = "jsIdle" => OpAt(i + 1) = "js_handle_io"
       /\ OpAt(i) = "jsInit" => OpAt(i + 1) = "jsSendPinWatchEvent"
       /\ OpAt(i) = "jsSendPinWatchEvent" => OpAt(i + 1) = "js_handle_io"
       /\ OpAt(i) = "jshPushIOCharEvent" =>
            OpAt(i + 1) \in {"jshPushIOCharEvent", "jsIdle"}
       /\ OpAt(i + 1) = "draw_screen" => OpAt(i) = "js_handle_io"
       /\ OpAt(i + 1) = "jshPushIOCharEvent" =>
            OpAt(i) \in {"js_handle_io", "jshPushIOCharEvent"}
  /\ pc \in {"draw_screen", "draw", "done"} => tx = << >>
  /\ DrainEnded => tx = << >> /\ printed = pending0
  /\ \A i, j \in 1 .. Len(printed \o tx) :
       i < j => OpRank((printed \o tx)[i].op) <= OpRank((printed \o tx)[j].op)

\* A tick's drain cycle has printed what the string injection queued and what
\* the tick queued, in that order.
C2_Witness ==
  /\ DrainEnded
  /\ OpAt(Len(ops) - 1) = "jsIdle"
  /\ Len(printed) = 2
  /\ printed[1].op = "jshPushIOCharEvent"
  /\ printed[2].op = "jsIdle"

\* An in-bounds write: both ranges lie inside FlashStore and the memory.
WriteInBounds(a, b, n) ==
  /\ a >= 0 /\ a <= FlashSize
  /\ n >= 0 /\ n <= FlashSize - a
  /\ b >= 0 /\ b <= MemBytes /\ n <= MemBytes - b

\* The call names an index, an offset or a length out of bounds.
OutOfBounds(c) ==
  CASE c.fn = "hwFlashRead" -> c.args[1] < 0 \/ c.args[1] >= FlashSize
    [] c.fn = "hwFlashWritePtr" -> ~WriteInBounds(c.args[1], c.args[2], c.args[3])
    [] c.fn \in {"hwGetPinValue", "hwSetPinValue"} ->
         c.args[1] < 0 \/ c.args[1] >= NumPins
    [] OTHER -> FALSE

\* The same, for FlashStore and PinBank alone.
StoreOutOfBounds(c) ==
  CASE c.fn = "hwFlashWritePtr" ->
         \/ c.args[1] < 0 \/ c.args[1] > FlashSize
         \/ c.args[3] < 0 \/ c.args[3] > FlashSize - c.args[1]
    [] OTHER -> OutOfBounds(c)

(* C3: an out-of-bounds access in hwFlashRead, hwFlashWritePtr,             *)
(* hwGetPinValue or hwSetPinValue, for any i32 arguments, is fatal to the  *)
(* firmware call in flight and leaves FlashStore and PinBank unchanged.    *)
C3_OutOfBoundsIsFatal ==
  [][ (last' # last /\ OutOfBounds(last')) =>
        (last'.outcome = "panic" /\ pc' = "panic" /\ flash' = flash /\ pins' = pins)
    ]_vars

\* What does hold: an index, offset or length outside FlashStore or PinBank
\* panics with both unchanged.
StoreOutOfBoundsPanics ==
  [][ (last' # last /\ StoreOutOfBounds(last')) =>
        (last'.outcome = "panic" /\ pc' = "panic" /\ flash' = flash /\ pins' = pins)
    ]_vars

(* C4: right after an in-bounds hwFlashWritePtr(off, ptr, len) the bytes   *)
(* off .. off+len-1 of FlashStore are the bytes ptr .. ptr+len-1 of the    *)
(* sandbox's memory, and hwFlashRead(i) answers the byte FlashStore holds  *)
(* at i.                                                                   *)
C4_ReadBackAfterWrite ==
  /\ (last.fn = "hwFlashWritePtr" /\ last.args[3] >= 1
        /\ WriteInBounds(last.args[1], last.args[2], last.args[3])) =>
       /\ last.outcome = "ok"
       /\ \A i \in 0 .. last.args[3] - 1 :
            FlashAt(flash, last.args[1] + i) = MemAt(mem, last.args[2] + i)
  /\ (last.fn = "hwFlashRead" /\ last.outcome = "ok") =>
       last.ret = FlashAt(flash, last.args[1])

(* C5: pins start with only BTN1 high; hwSetPinValue(i, v) sets pin i to   *)
(* v (true when v is not 0) and changes no other pin, no other step        *)
(* changes a pin, and hwGetPinValue(i) answers pin i's level: the value of *)
(* the most recent hwSetPinValue(i, v), or the initial level.              *)
C5_PinBank ==
  /\ \A i \in 0 .. NumPins - 1 : pins[i] = (i = 17)
  /\ [](\A i \in 0 .. NumPins - 1 :
          (last.fn = "hwGetPinValue" /\ last.outcome = "ok" /\ last.args = << i >>)
            => last.ret = (IF pins[i] THEN 1 ELSE 0))
  /\ [][ IF last' # last /\ last'.fn = "hwSetPinValue" /\ last'.outcome = "ok"
           THEN \A i \in 0 .. NumPins - 1 :
                  pins'[i] = (IF i = last'.args[1] THEN last'.args[2] # 0 ELSE pins[i])
           ELSE pins' = pins
       ]_vars

\* The button pin, set low by the firmware, is read back low.
C5_Witness ==
  /\ last.fn = "hwGetPinValue"
  /\ last.args = << 17 >>
  /\ last.outcome = "ok"
  /\ last.ret = 0

(* C6: the push-character calls main has made are, in order, the bytes of  *)
(* the string from its first one on, each with device 21; all 27 have been *)
(* made once main goes on to the idle ticks; and once the run has ended    *)
(* (a call faulted) no further call is made.                               *)
C6_PushInOrder ==
  /\ [](/\ Len(PushCalls) = k
        /\ Len(PushCalls) <= 27
        /\ \A n \in 1 .. Len(PushCalls) : PushCalls[n].args = << 21, PushString[n] >>
        /\ (\E i \in 1 .. Len(ops) : OpAt(i) \in {"jsIdle", "draw_screen"})
             => Len(PushCalls) = 27)
  /\ [][ (pc \in Terminal) => (ops' = ops) ]_vars

\* The whole string has been pushed and main is about to tick.
C6_Witness ==
  /\ pc = "idle"
  /\ step = 0
  /\ Len(PushCalls) = 27
  /\ PushCalls[27].args = << 21, 10 >>

(* C7: when a drain cycle has ended, the bytes it wrote are exactly the    *)
(* characters that were queued when it began, in order, with nothing       *)
(* added; it polled once per character and once more; nothing is left      *)
(* queued.                                                                 *)
C7_DrainEmitsPending ==
  DrainEnded =>
    /\ out = [i \in 1 .. Len(pending0) |-> pending0[i].ch]
    /\ polls = Len(pending0) + 1
    /\ tx = << >>

RECURSIVE Utf8All(_)
Utf8All(q) == IF q = << >> THEN << >> ELSE Utf8(Head(q).ch) \o Utf8All(Tail(q))

\* What does hold: the cycle ends after one poll per queued character and one
\* more, having taken the queue in order, and has written each character's
\* UTF-8 encoding and then a line feed.
DrainWritesUtf8AndNewline ==
  /\ drain # "none" => polls <= Len(pending0) + 1
  /\ DrainEnded =>
       /\ printed = pending0
       /\ out = Utf8All(pending0) \o << 10 >>
       /\ polls = Len(pending0) + 1
       /\ tx = << >>

(* C8: jsInit is called once; it, the pin-watch event for pin 17 and the   *)
(* first drain cycle come, in that order and completed, before any         *)
(* push-character call, idle tick or framebuffer read; and the handle      *)
(* jsHandleIO uses is set before jsInit is called.                         *)
C8_InitFirst ==
  /\ Cardinality({i \in 1 .. Len(ops) : OpAt(i) = "jsInit"}) <= 1
  /\ pc \notin {"new_instance", "js_init"} =>
       Cardinality({i \in 1 .. Len(ops) : OpAt(i) = "jsInit"}) = 1
  /\ \A i \in 1 .. Len(ops) :
       OpAt(i) \in {"jshPushIOCharEvent", "jsIdle", "draw_screen"} =>
         /\ i > 3
         /\ ops[1] = [op |-> "jsInit", args |-> << >>]
         /\ ops[2] = [op |-> "jsSendPinWatchEvent", args |-> << 17 >>]
         /\ ops[3] = [op |-> "js_handle_io", args |-> << >>]
  /\ (drain # "none" /\ dctx = "main") => OpAt(Len(ops)) = "js_handle_io"
  /\ (fw # "none" /\ Len(ops) = 2) => OpAt(2) = "jsSendPinWatchEvent"
  /\ rows # << >> => \E i \in 4 .. Len(ops) : OpAt(i) = "draw_screen"
  /\ ops # << >> => instance_env = "Some"

\* The run has gone through the pushes, the ticks and the framebuffer read.
C8_Witness ==
  /\ pc = "done"
  /\ Len(rows) = 176
  /\ Len(PushCalls) = 27
  /\ Cardinality({i \in 1 .. Len(ops) : OpAt(i) = "jsInit"}) = 1

\* Bit n of a row read as a stream of bits, least significant bit first.
RowBit(row, n) == (row[(n \div 8) + 1] \div (2 ^ (n % 8))) % 2

(* C9: get3(x, row) is the 3-bit value whose bit j is bit 3x+j of the row  *)
(* read least significant bit first; it is ((row[b] >> s) | carry) & 7     *)
(* with b = 3x div 8 and s = 3x mod 8, the carry coming from row[b+1] only *)
(* when s > 5.                                                             *)
C9_Get3Value ==
  c0 # -1 =>
    /\ c0 = RowBit(buf0, 3 * px) + 2 * RowBit(buf0, 3 * px + 1)
              + 4 * RowBit(buf0, 3 * px + 2)
    /\ c0 = LET b == (3 * px) \div 8
                s == (3 * px) % 8
            IN  ((buf0[b + 1] \div (2 ^ s))
                   + (IF s > 5 THEN buf0[b + 2] * (2 ^ (8 - s)) ELSE 0)) % 8

\* A pixel that straddles two bytes, its top bit taken from the second one.
C9_Witness ==
  /\ c0 # -1
  /\ (3 * px) % 8 = 7
  /\ buf0[((3 * px) \div 8) + 1] = 128
  /\ buf0[((3 * px) \div 8) + 2] = 2
  /\ c0 = 5

(* C10: every byte index get3 reads while a screen is drawn is at most 65, *)
(* and the rows asked of the firmware are 0, 1, 2, ... 175 in that order,  *)
(* each once, two per iteration.                                           *)
C10_RowReads ==
  /\ \A i \in reads : i >= 0 /\ i <= 65
  /\ Len(rows) <= 176
  /\ \A i \in 1 .. Len(rows) : rows[i] = i - 1
  /\ (pc = "draw" /\ dstage \in {"get0"}) => Len(rows) = y
  /\ (pc = "draw" /\ dstage \in {"read", "decode"}) => Len(rows) = y + 2
  /\ pc = "done" => Len(rows) = 176

\* The whole screen has been drawn, the last byte of a row included.
C10_Witness ==
  /\ pc = "done"
  /\ rows[176] = 175
  /\ 65 \in reads

====
